---- MODULE Spec2Model ----
(***************************************************************************)
(* Notion MCP gateway: the POST /mcp command endpoint (bearer gate, action *)
(* dispatch, Notion client calls) and the GET /sse keep-alive stream.      *)
(* One /mcp request and one /sse connection are followed at a time; the    *)
(* environment (os.getenv) is fixed at start-up.                           *)
(***************************************************************************)
EXTENDS Integers, Sequences, FiniteSets, TLC

VARIABLES env, pc, req, ran, calls, outcome, resp,
          ssePc, sseReq, sseConnected, sseEvents, sseErr

vars == <<env, pc, req, ran, calls, outcome, resp,
          ssePc, sseReq, sseConnected, sseEvents, sseErr>>

mcpVars == <<pc, req, ran, calls, outcome, resp>>

sseVars == <<ssePc, sseReq, sseConnected, sseEvents, sseErr>>

(* ---------------- bounds ---------------- *)

MaxEvents == 2

(* ---------------- JSON / Python values ---------------- *)

JNull == [t |-> "null"]

JStr(s) == [t |-> "str", s |-> s]

JBool(b) == [t |-> "bool", b |-> b]

JNum(n) == [t |-> "num", n |-> n]

JList(items) == [t |-> "list", items |-> items]

JObj(keys) == [t |-> "obj", keys |-> keys]

Absent == [t |-> "absent"]

(* Python truth value of an object: bool(v), `if v`, `not v` *)
Truthy(v) ==
    CASE v.t = "null" -> FALSE
      [] v.t = "str"  -> v.s # ""
      [] v.t = "bool" -> v.b
      [] v.t = "num"  -> v.n # 0
      [] v.t = "list" -> Len(v.items) > 0
      [] v.t = "obj"  -> Len(v.keys) > 0

RECURSIVE Repr(_)
RECURSIVE JoinRepr(_)
RECURSIVE JoinKeys(_)

JoinKeys(ks) ==
    IF Len(ks) = 0 THEN ""
    ELSE "'" \o Head(ks) \o "': None"
         \o (IF Len(ks) > 1 THEN ", " ELSE "") \o JoinKeys(Tail(ks))

JoinRepr(xs) ==
    IF Len(xs) = 0 THEN ""
    ELSE Repr(Head(xs))
         \o (IF Len(xs) > 1 THEN ", " ELSE "") \o JoinRepr(Tail(xs))

(* Python repr() of a value *)
Repr(v) ==
    CASE v.t = "null" -> "None"
      [] v.t = "str"  -> "'" \o v.s \o "'"
      [] v.t = "bool" -> IF v.b THEN "True" ELSE "False"
      [] v.t = "num"  -> ToString(v.n)
      [] v.t = "list" -> "[" \o JoinRepr(v.items) \o "]"
      [] v.t = "obj"  -> "{" \o JoinKeys(v.keys) \o "}"

(* Python str() of a value, as an f-string placeholder formats it *)
Fmt(v) == IF v.t = "str" THEN v.s ELSE Repr(v)

(* dict.get(k) and dict.get(k, d) *)
Get(p, k) == IF k \in DOMAIN p THEN p[k] ELSE JNull

GetD(p, k, d) == IF k \in DOMAIN p THEN p[k] ELSE d

(* isinstance(v, list) *)
IsList(v) == v.t = "list"

(* ---------------- steps of a coroutine up to its first await ---------------- *)

Return(data) == [k |-> "return", data |-> data]

Raise(exc) == [k |-> "raise", exc |-> exc]

HTTPException(code, detail) == [k |-> "http", code |-> code, detail |-> detail]

Send(method, url) == [k |-> "send", method |-> method, url |-> url]

SendJson(method, url, payload) ==
    [k |-> "send", method |-> method, url |-> url, json |-> payload]

(* ---------------- notion_client ---------------- *)

BASE == "https://api.notion.com/v1"

_post(url, payload) == SendJson("POST", url, payload)

_patch(url, payload) == SendJson("PATCH", url, payload)

ResponseJson_raise_for_status(r) ==
    CASE r.k = "json"      -> IF r.status >= 400
                              THEN Raise("HTTPStatusError")
                              ELSE Return(r.body)
      [] r.k = "notjson"   -> Raise("JSONDecodeError")
      [] r.k = "transport" -> Raise(r.exc)

ResponseJson_swallow(r) ==
    CASE r.k = "json"      -> Return(r.body)
      [] r.k = "notjson"   -> Raise("JSONDecodeError")
      [] r.k = "transport" -> Return([error |-> r.exc])

(* `return r.json()`: the body is parsed whatever the HTTP status is; a    *)
(* transport failure raises out of the await, a non-JSON body out of json() *)
ResponseJson(r) ==
    CASE r.k = "json"      -> Return(r.body)
      [] r.k = "notjson"   -> Raise("JSONDecodeError")
      [] r.k = "transport" -> Raise(r.exc)

create_page(title, e) ==
    _post(BASE \o "/pages",
          [parent |-> [page_id |-> e.NOTION_PAGE_ID],
           properties |-> [title |-> <<[type |-> "text",
                                        text |-> [content |-> title]]>>]])

create_task(p, e) ==
    LET db == e.NOTION_DATABASE_ID
        title == GetD(p, "title", JStr("Untitled"))
        due_date == Get(p, "due_date")
        name == "Name" :> [title |-> <<[text |-> [content |-> title]]>>]
        props == IF Truthy(due_date)
                 THEN name @@ ("Due date" :> [date |-> [start |-> due_date]])
                 ELSE name
    IN  IF ~Truthy(db)
        THEN Return([error |-> "NOTION_DATABASE_ID not set"])
        ELSE _post(BASE \o "/pages",
                   [parent |-> [database_id |-> db], properties |-> props])

update_page(p) ==
    IF "page_id" \notin DOMAIN p THEN Raise("KeyError")
    ELSE IF "properties" \notin DOMAIN p THEN Raise("KeyError")
    ELSE _patch(BASE \o "/pages/" \o Fmt(p["page_id"]),
                [properties |-> p["properties"]])

query_database_unchecked(filter_payload, e) ==
    LET database_id == e.NOTION_DATABASE_ID
        payload == IF Truthy(filter_payload)
                   THEN "filter" :> filter_payload
                   ELSE <<>>
    IN  _post(BASE \o "/databases/" \o Fmt(database_id) \o "/query", payload)

query_database(filter_payload, e) ==
    LET database_id == e.NOTION_DATABASE_ID
        payload == IF Truthy(filter_payload)
                   THEN "filter" :> filter_payload
                   ELSE <<>>
    IN  IF ~Truthy(database_id)
        THEN Return([error |-> "NOTION_DATABASE_ID not set"])
        ELSE _post(BASE \o "/databases/" \o Fmt(database_id) \o "/query",
                   payload)

retrieve_page(page_id) == Send("GET", BASE \o "/pages/" \o Fmt(page_id))

archive_page(page_id, archived) ==
    _patch(BASE \o "/pages/" \o Fmt(page_id), [archived |-> archived])

delete_block(block_id) == Send("DELETE", BASE \o "/blocks/" \o Fmt(block_id))

append_block_children(block_id, children) ==
    SendJson("PATCH", BASE \o "/blocks/" \o Fmt(block_id) \o "/children",
             [children |-> children])

retrieve_block_children(block_id) ==
    Send("GET", BASE \o "/blocks/" \o Fmt(block_id) \o "/children")

retrieve_database(database_id) ==
    Send("GET", BASE \o "/databases/" \o Fmt(database_id))

search_sends_null(query, filter, sort) ==
    _post(BASE \o "/search",
          ("query" :> query) @@ ("filter" :> filter) @@ ("sort" :> sort))

search(query, filter, sort) ==
    LET q == "query" :> query
        f == IF Truthy(filter) THEN "filter" :> filter ELSE <<>>
        s == IF Truthy(sort) THEN "sort" :> sort ELSE <<>>
    IN  _post(BASE \o "/search", q @@ f @@ s)

(* ---------------- main: security ---------------- *)

verify_token_no_compare(token, credentials) ==
    IF ~Truthy(token) THEN Return(JNull)
    ELSE IF credentials = JNull
    THEN HTTPException(401, "unauthorized")
    ELSE Return(JNull)

(* token is os.getenv("MCP_TOKEN"); credentials is None or the bearer      *)
(* credential the HTTPBearer(auto_error=False) scheme extracted            *)
verify_token(token, credentials) ==
    IF ~Truthy(token) THEN Return(JNull)
    ELSE IF credentials = JNull \/ credentials.s # token.s
    THEN HTTPException(401, "unauthorized")
    ELSE Return(JNull)

(* ---------------- main: the branches of mcp ---------------- *)

mcp_create_page(p, e) == create_page(GetD(p, "title", JStr("Untitled")), e)

mcp_create_task(p, e) == create_task(p, e)

mcp_update_page(p) == update_page(p)

mcp_query_database(p, e) == query_database(Get(p, "filter"), e)

mcp_retrieve_page_unchecked(p) == retrieve_page(Get(p, "page_id"))

mcp_retrieve_page(p) ==
    LET page_id == Get(p, "page_id")
    IN  IF ~Truthy(page_id)
        THEN HTTPException(400, "page_id is required for retrieve_page")
        ELSE retrieve_page(page_id)

mcp_archive_page_default_false(p) ==
    LET page_id == Get(p, "page_id")
        archived_flag == GetD(p, "archived", JBool(FALSE))
    IN  IF ~Truthy(page_id)
        THEN HTTPException(400, "page_id is required for archive_page")
        ELSE archive_page(page_id, Truthy(archived_flag))

mcp_archive_page(p) ==
    LET page_id == Get(p, "page_id")
        archived_flag == GetD(p, "archived", JBool(TRUE))
    IN  IF ~Truthy(page_id)
        THEN HTTPException(400, "page_id is required for archive_page")
        ELSE archive_page(page_id, Truthy(archived_flag))

mcp_delete_block(p) ==
    LET block_id == Get(p, "block_id")
    IN  IF ~Truthy(block_id)
        THEN HTTPException(400, "block_id is required for delete_block")
        ELSE delete_block(block_id)

mcp_append_block_children(p) ==
    LET block_id == Get(p, "block_id")
        children == Get(p, "children")
    IN  IF ~Truthy(block_id) \/ ~IsList(children)
        THEN HTTPException(400,
               "block_id and children (list) required for append_block_children")
        ELSE append_block_children(block_id, children)

mcp_retrieve_block_children(p) ==
    LET block_id == Get(p, "block_id")
    IN  IF ~Truthy(block_id)
        THEN HTTPException(400,
               "block_id is required for retrieve_block_children")
        ELSE retrieve_block_children(block_id)

mcp_retrieve_database(p) ==
    LET database_id == Get(p, "database_id")
    IN  IF ~Truthy(database_id)
        THEN HTTPException(400,
               "database_id is required for retrieve_database")
        ELSE retrieve_database(database_id)

mcp_search(p) ==
    LET query == Get(p, "query")
    IN  IF ~Truthy(query)
        THEN HTTPException(400, "query is required for search")
        ELSE search(query, Get(p, "filter"), Get(p, "sort"))

mcp_unknown_falls_through(action) == Return(JNull)

mcp_unknown(action) == HTTPException(400, "unknown action: " \o action)

(* the handler of POST /mcp, up to the await of the client call *)
mcp(action, p, e) ==
    CASE action = "create_page"             -> mcp_create_page(p, e)
      [] action = "create_task"             -> mcp_create_task(p, e)
      [] action = "update_page"             -> mcp_update_page(p)
      [] action = "query_database"          -> mcp_query_database(p, e)
      [] action = "retrieve_page"           -> mcp_retrieve_page(p)
      [] action = "archive_page"            -> mcp_archive_page(p)
      [] action = "delete_block"            -> mcp_delete_block(p)
      [] action = "append_block_children"   -> mcp_append_block_children(p)
      [] action = "retrieve_block_children" -> mcp_retrieve_block_children(p)
      [] action = "retrieve_database"       -> mcp_retrieve_database(p)
      [] action = "search"                  -> mcp_search(p)
      [] OTHER                              -> mcp_unknown(action)

(* what the route sends back for a finished step: the value of             *)
(* `return {"status": "ok", "data": ...}`, an HTTPException as its status   *)
(* and detail, any other exception as the server's 500                      *)
Respond(step) ==
    CASE step.k = "return" ->
           [code |-> 200, body |-> [status |-> "ok", data |-> step.data]]
      [] step.k = "http" ->
           [code |-> step.code, body |-> [detail |-> step.detail]]
      [] step.k = "raise" ->
           [code |-> 500, body |-> [error |-> "Internal Server Error"]]

(* ---------------- inputs ---------------- *)

RegisteredActions ==
    {"create_page", "create_task", "update_page", "query_database",
     "retrieve_page", "archive_page", "delete_block", "append_block_children",
     "retrieve_block_children", "retrieve_database", "search"}

UnknownActions == {"", "Create_Page", "drop_database"}

Options(field) ==
    CASE field = "title"       -> {Absent, JStr("Plan")}
      [] field = "due_date"    -> {Absent, JStr(""), JStr("2025-08-05")}
      [] field = "page_id"     -> {Absent, JNull, JStr(""), JStr("abc123")}
      [] field = "properties"  -> {Absent, JObj(<<>>), JObj(<<"Name">>)}
      [] field = "filter"      -> {Absent, JNull, JObj(<<>>),
                                   JObj(<<"property">>), JBool(FALSE)}
      [] field = "sort"        -> {Absent, JNull, JObj(<<>>),
                                   JObj(<<"direction">>), JBool(FALSE)}
      [] field = "archived"    -> {Absent, JNull, JBool(TRUE), JBool(FALSE),
                                   JNum(0), JNum(1), JStr(""), JStr("false")}
      [] field = "block_id"    -> {Absent, JStr(""), JStr("b1")}
      [] field = "children"    -> {Absent, JNull, JList(<<>>),
                                   JList(<<JObj(<<"paragraph">>)>>),
                                   JStr("paragraph"), JObj(<<"paragraph">>)}
      [] field = "database_id" -> {Absent, JStr(""), JStr("db9")}
      [] field = "query"       -> {Absent, JStr(""), JStr("notes")}

FieldsOf(action) ==
    CASE action = "create_page"             -> {"title"}
      [] action = "create_task"             -> {"title", "due_date"}
      [] action = "update_page"             -> {"page_id", "properties"}
      [] action = "query_database"          -> {"filter"}
      [] action = "retrieve_page"           -> {"page_id"}
      [] action = "archive_page"            -> {"page_id", "archived"}
      [] action = "delete_block"            -> {"block_id"}
      [] action = "append_block_children"   -> {"block_id", "children"}
      [] action = "retrieve_block_children" -> {"block_id"}
      [] action = "retrieve_database"       -> {"database_id"}
      [] action = "search"                  -> {"query", "filter", "sort"}
      [] OTHER                              -> {"page_id", "query"}

(* the dict that holds the chosen fields; an Absent field is no key at all *)
MkDict(a) == [f \in {g \in DOMAIN a : a[g] # Absent} |-> a[f]]

Assignments(action) ==
    {a \in [FieldsOf(action) -> UNION {Options(f) : f \in FieldsOf(action)}] :
        \A f \in FieldsOf(action) : a[f] \in Options(f)}

ParametersOf(action) == {MkDict(a) : a \in Assignments(action)}

Credentials == {JNull, JStr("s3cret"), JStr("guess")}

TokenValues == {JNull, JStr(""), JStr("s3cret")}

DatabaseIdValues == {JNull, JStr(""), JStr("db1")}

PageIdValues == {JNull, JStr("root")}

(* what the await of an httpx call can produce *)
RemoteOutcomes ==
    {[k |-> "json", status |-> 200, body |-> [object |-> "page"]],
     [k |-> "json", status |-> 404,
      body |-> [object |-> "error", status |-> 404]],
     [k |-> "json", status |-> 500,
      body |-> [object |-> "error", status |-> 500]],
     [k |-> "notjson", status |-> 502],
     [k |-> "transport", exc |-> "ReadTimeout"],
     [k |-> "transport", exc |-> "ConnectError"]}

NoRequest == [action |-> "-"]

NoOutcome == [k |-> "none"]

NoResponse == [code |-> 0]

NoReq == [t |-> "unbound"]

(* ---------------- state machine ---------------- *)

Init ==
    /\ env \in [MCP_TOKEN : TokenValues,
                NOTION_DATABASE_ID : DatabaseIdValues,
                NOTION_PAGE_ID : PageIdValues]
    /\ pc = "idle"
    /\ req = NoRequest
    /\ ran = {}
    /\ calls = <<>>
    /\ outcome = NoOutcome
    /\ resp = NoResponse
    /\ ssePc = "none"
    /\ sseReq = NoReq
    /\ sseConnected = FALSE
    /\ sseEvents = 0
    /\ sseErr = "-"

(* a POST /mcp request whose body parsed into an MCPCommand arrives *)
PostMcp ==
    /\ pc = "idle"
    /\ \E action \in RegisteredActions \cup UnknownActions :
       \E p \in ParametersOf(action) :
       \E c \in Credentials :
          req' = [action |-> action, parameters |-> p, credentials |-> c]
    /\ pc' = "verify_token"
    /\ ran' = {}
    /\ calls' = <<>>
    /\ outcome' = NoOutcome
    /\ resp' = NoResponse
    /\ UNCHANGED <<env, sseVars>>

(* the dependency of the route *)
VerifyToken ==
    /\ pc = "verify_token"
    /\ LET step == verify_token(env.MCP_TOKEN, req.credentials)
       IN  IF step.k = "return"
           THEN pc' = "mcp" /\ resp' = resp
           ELSE pc' = "done" /\ resp' = Respond(step)
    /\ ran' = ran \cup {"verify_token"}
    /\ UNCHANGED <<env, req, calls, outcome, sseVars>>

(* the route function runs up to its await, or to its end *)
McpHandler ==
    /\ pc = "mcp"
    /\ LET step == mcp(req.action, req.parameters, env)
       IN  IF step.k = "send"
           THEN pc' = "await" /\ calls' = Append(calls, step) /\ resp' = resp
           ELSE pc' = "done" /\ calls' = calls /\ resp' = Respond(step)
    /\ ran' = ran \cup {"mcp"}
    /\ UNCHANGED <<env, req, outcome, sseVars>>

(* the awaited client call completes and the route returns or raises *)
RemoteReply ==
    /\ pc = "await"
    /\ \E r \in RemoteOutcomes :
          /\ outcome' = r
          /\ resp' = Respond(ResponseJson(r))
    /\ pc' = "done"
    /\ UNCHANGED <<env, req, ran, calls, sseVars>>

(* the response has been written; the server waits for the next request *)
Complete ==
    /\ pc = "done"
    /\ pc' = "idle"
    /\ req' = NoRequest
    /\ ran' = {}
    /\ calls' = <<>>
    /\ outcome' = NoOutcome
    /\ resp' = NoResponse
    /\ UNCHANGED <<env, sseVars>>

(* GET /sse: the route has no dependencies; its parameter req carries no   *)
(* annotation, so it is bound from the query string                        *)
GetSse ==
    /\ ssePc \in {"none", "rejected", "ended"}
    /\ \E q \in {Absent, JStr("1")} :
          IF q = Absent
          THEN /\ ssePc' = "rejected"
               /\ sseReq' = NoReq
               /\ sseConnected' = FALSE
          ELSE /\ ssePc' = "stream"
               /\ sseReq' = q
               /\ sseConnected' = TRUE
    /\ sseEvents' = 0
    /\ sseErr' = "-"
    /\ UNCHANGED <<env, mcpVars>>

(* hasattr(req, "is_disconnected") *)
HasIsDisconnected(r) == r.t = "request"

(* one turn of the generator: the loop test, then the yield and the sleep *)
SseStream ==
    /\ ssePc = "stream"
    /\ sseEvents < MaxEvents
    /\ IF ~HasIsDisconnected(sseReq)
       THEN ssePc' = "ended" /\ sseErr' = "AttributeError"
                             /\ sseEvents' = sseEvents
       ELSE IF ~sseConnected
       THEN ssePc' = "ended" /\ sseErr' = "-" /\ sseEvents' = sseEvents
       ELSE ssePc' = "stream" /\ sseErr' = "-" /\ sseEvents' = sseEvents + 1
    /\ UNCHANGED <<env, mcpVars, sseReq, sseConnected>>

ClientDisconnect ==
    /\ ssePc = "stream"
    /\ sseConnected
    /\ sseConnected' = FALSE
    /\ UNCHANGED <<env, mcpVars, ssePc, sseReq, sseEvents, sseErr>>

Next ==
    \/ PostMcp
    \/ VerifyToken
    \/ McpHandler
    \/ RemoteReply
    \/ Complete
    \/ GetSse
    \/ SseStream
    \/ ClientDisconnect

Spec == Init /\ [][Next]_vars

(* ---------------- vocabulary of the properties ---------------- *)

Params == req.parameters

HandlerRan == "mcp" \in ran

Finished == pc = "done"

SecretConfigured == env.MCP_TOKEN \notin {JNull, JStr("")}

DatabaseConfigured == env.NOTION_DATABASE_ID \notin {JNull, JStr("")}

EmptyValues == {JNull, JStr(""), JList(<<>>), JObj(<<>>)}

FalsyValues == EmptyValues \cup {JBool(FALSE), JNum(0)}

MissingOrEmpty(f) == f \notin DOMAIN Params \/ Params[f] \in EmptyValues

NotASequence(f) == f \notin DOMAIN Params \/ Params[f].t # "list"

IdActions ==
    {"retrieve_page", "archive_page", "delete_block",
     "append_block_children", "retrieve_block_children", "retrieve_database"}

IdField(action) ==
    CASE action \in {"retrieve_page", "archive_page"} -> "page_id"
      [] action = "retrieve_database" -> "database_id"
      [] OTHER -> "block_id"

ExpectedDetail(action) ==
    IF action = "append_block_children"
    THEN "block_id and children (list) required for append_block_children"
    ELSE IdField(action) \o " is required for " \o action

OkEnvelope(data) == [code |-> 200, body |-> [status |-> "ok", data |-> data]]

BadRequest(detail) == [code |-> 400, body |-> [detail |-> detail]]

(* ---------------- properties ---------------- *)

(* C1: an update_page command that lacks page_id or properties ends in     *)
(* HTTP 400 and issues no remote call.                                     *)
C1_UpdatePageMissingFieldIsBadRequest ==
    (/\ Finished
     /\ HandlerRan
     /\ req.action = "update_page"
     /\ {"page_id", "properties"} \ DOMAIN Params # {})
    => (resp.code = 400 /\ calls = <<>>)

(* C2: the gate answers 401 exactly when a secret is configured and the    *)
(* bearer credential is absent or differs from it; a rejected request runs *)
(* neither the handler nor a remote call.                                  *)
C2_GateRejectsExactlyBadCredentials ==
    "verify_token" \in ran =>
        LET rejected == Finished /\ resp.code = 401
        IN  /\ rejected <=> (/\ SecretConfigured
                             /\ (\/ req.credentials = JNull
                                 \/ req.credentials # env.MCP_TOKEN))
            /\ rejected => (~HandlerRan /\ calls = <<>> /\ outcome = NoOutcome)
            /\ ~rejected => pc \in {"mcp", "await", "done"}

C2_Witness ==
    /\ Finished
    /\ resp.code = 401
    /\ req.credentials = JStr("guess")
    /\ req.action = "retrieve_page"
    /\ "page_id" \in DOMAIN Params

(* C3: a command whose action is not registered ends in HTTP 400 with the  *)
(* detail "unknown action: <name>" and no remote call, whatever its        *)
(* parameters.                                                             *)
C3_UnknownActionIsBadRequest ==
    (HandlerRan /\ req.action \notin RegisteredActions)
    => (/\ Finished
        /\ resp = BadRequest("unknown action: " \o req.action)
        /\ calls = <<>>
        /\ outcome = NoOutcome)

C3_Witness ==
    /\ Finished
    /\ HandlerRan
    /\ req.action = "Create_Page"
    /\ DOMAIN Params = {"page_id", "query"}

(* C4: without a configured database id, create_task and query_database    *)
(* answer the success envelope whose data carries an error key, and issue  *)
(* no remote call.                                                         *)
C4_MissingDatabaseIdIsSoftError ==
    (/\ HandlerRan
     /\ req.action \in {"create_task", "query_database"}
     /\ ~DatabaseConfigured)
    => (/\ Finished
        /\ resp.code = 200
        /\ resp.body.status = "ok"
        /\ "error" \in DOMAIN resp.body.data
        /\ calls = <<>>
        /\ outcome = NoOutcome)

C4_Witness ==
    /\ Finished
    /\ HandlerRan
    /\ req.action = "query_database"
    /\ env.NOTION_DATABASE_ID = JNull
    /\ "filter" \in DOMAIN Params
    /\ resp.code = 200

(* C5 as stated: for the six id-taking actions, a required field that is   *)
(* missing or empty (children included), or children that is not a         *)
(* sequence, ends in HTTP 400 naming the action and the field, with no     *)
(* remote call.                                                            *)
C5_MissingOrEmptyFieldIsBadRequest ==
    (/\ HandlerRan
     /\ req.action \in IdActions
     /\ \/ MissingOrEmpty(IdField(req.action))
        \/ /\ req.action = "append_block_children"
           /\ (MissingOrEmpty("children") \/ NotASequence("children")))
    => (/\ Finished
        /\ resp = BadRequest(ExpectedDetail(req.action))
        /\ calls = <<>>)

(* C5 amended: the id field missing or empty, or children missing or not a *)
(* sequence, ends in HTTP 400 naming the action and the field, with no     *)
(* remote call; an empty children sequence is not rejected.                *)
C5_MissingIdOrNonSequenceIsBadRequest ==
    (/\ HandlerRan
     /\ req.action \in IdActions
     /\ \/ MissingOrEmpty(IdField(req.action))
        \/ /\ req.action = "append_block_children"
           /\ NotASequence("children"))
    => (/\ Finished
        /\ resp = BadRequest(ExpectedDetail(req.action))
        /\ calls = <<>>
        /\ outcome = NoOutcome)

C5_Witness ==
    /\ Finished
    /\ HandlerRan
    /\ req.action = "append_block_children"
    /\ Get(Params, "block_id") = JStr("b1")
    /\ Get(Params, "children") = JStr("paragraph")
    /\ resp.code = 400

(* C6: search without a non-empty query ends in HTTP 400 with no remote    *)
(* call; otherwise one POST carries query, and filter and sort only when   *)
(* supplied: an absent or empty one is omitted, a supplied mapping is      *)
(* passed as is, and nothing is sent as null.                              *)
C6_SearchPayload ==
    (HandlerRan /\ req.action = "search") =>
        IF MissingOrEmpty("query")
        THEN /\ Finished
             /\ resp.code = 400
             /\ calls = <<>>
        ELSE /\ Len(calls) = 1
             /\ calls[1].method = "POST"
             /\ calls[1].url = "https://api.notion.com/v1/search"
             /\ LET json == calls[1].json
                IN  /\ "query" \in DOMAIN json
                    /\ json["query"] = Params["query"]
                    /\ DOMAIN json \subseteq
                          {"query"} \cup (DOMAIN Params \cap {"filter", "sort"})
                    /\ \A f \in {"filter", "sort"} :
                          /\ MissingOrEmpty(f) => f \notin DOMAIN json
                          /\ (f \in DOMAIN Params /\ Params[f].t = "obj"
                                /\ Params[f].keys # <<>>)
                             => (f \in DOMAIN json /\ json[f] = Params[f])
                    /\ \A f \in DOMAIN json : json[f] # JNull

C6_Witness ==
    /\ pc = "await"
    /\ req.action = "search"
    /\ Get(Params, "query") = JStr("notes")
    /\ "filter" \in DOMAIN Params
    /\ Params["filter"] = JObj(<<>>)
    /\ DOMAIN calls[1].json = {"query", "sort"}

(* C7: when the remote call returned a JSON body R, whatever its HTTP      *)
(* status, the response is exactly {status: "ok", data: R}; retrieve_page  *)
(* with a page id issues one GET to .../pages/<page_id>.                   *)
C7_RemoteBodyForwardedVerbatim ==
    /\ (Finished /\ outcome.k = "json")
       => (resp = OkEnvelope(outcome.body) /\ Len(calls) = 1)
    /\ (/\ HandlerRan
        /\ req.action = "retrieve_page"
        /\ Get(Params, "page_id").t = "str"
        /\ Get(Params, "page_id") # JStr(""))
       => calls = <<[k |-> "send", method |-> "GET",
                     url |-> "https://api.notion.com/v1/pages/"
                             \o Params["page_id"].s]>>

C7_Witness ==
    /\ Finished
    /\ req.action = "retrieve_page"
    /\ outcome.k = "json"
    /\ outcome.status = 404
    /\ resp.code = 200
    /\ resp.body.data = [object |-> "error", status |-> 404]

(* C8: archive_page with a non-empty page_id issues one PATCH to the page  *)
(* whose payload is {archived: true} when no archived field is given, and  *)
(* otherwise the given flag as a boolean, false for a falsy value.         *)
C8_ArchivePayload ==
    (/\ HandlerRan
     /\ req.action = "archive_page"
     /\ ~MissingOrEmpty("page_id"))
    => (/\ Len(calls) = 1
        /\ calls[1].method = "PATCH"
        /\ calls[1].url = "https://api.notion.com/v1/pages/"
                          \o Params["page_id"].s
        /\ calls[1].json =
              [archived |-> IF "archived" \in DOMAIN Params
                            THEN Params["archived"] \notin FalsyValues
                            ELSE TRUE])

C8_Witness ==
    /\ pc = "await"
    /\ req.action = "archive_page"
    /\ DOMAIN Params = {"page_id"}
    /\ calls[1].json = [archived |-> TRUE]

(* C9: the keep-alive stream of GET /sse keeps emitting while the client   *)
(* is connected; it is refused to nobody and ends only once the client has *)
(* disconnected.                                                           *)
C9_StreamEndsOnlyOnDisconnect ==
    /\ ssePc # "rejected"
    /\ ssePc = "ended" => ~sseConnected

(* C10: a remote call that times out or fails in transport ends the        *)
(* request in HTTP 5xx, never in the ok envelope, and no request makes     *)
(* more than one remote call.                                              *)
C10_TransportFailureIsServerError ==
    /\ Len(calls) <= 1
    /\ (Finished /\ outcome.k = "transport")
       => (/\ resp.code \in 500..599
           /\ "status" \notin DOMAIN resp.body
           /\ "data" \notin DOMAIN resp.body
           /\ Len(calls) = 1)

C10_Witness ==
    /\ Finished
    /\ outcome = [k |-> "transport", exc |-> "ReadTimeout"]
    /\ resp.code = 500
    /\ req.action = "create_page"

====
